---- MODULE Spec2Model ----
(***************************************************************************)
(* Instance runtime of raptor-engine components                            *)
(* (packages/raptor-engine/src/framework/html-element.ts).                 *)
(*                                                                         *)
(* The state is the per-instance view-model records (backing stores of     *)
(* the public, wired and state properties, link to the component), the     *)
(* two ambient globals of the engine (the VM being constructed, the        *)
(* rendering flag with the VM being rendered), the watcher registry, and   *)
(* a record of the last accessor call with what it returned or reported.   *)
(***************************************************************************)
EXTENDS Integers, Sequences, FiniteSets, TLC

\* ------------------------------------------------------------------ bounds
NumVMs == 2
MaxA == 2
MaxNodes == 2

VMs == 1..NumVMs
NoVM == 0

\* ------------------------------------------------------------------ values
\* A JavaScript value: its kind, a payload (the field `a` of an object, the
\* number of a primitive) and whether it is the reactive proxy of the value.
Val(kind, a, px) == [kind |-> kind, a |-> a, proxy |-> px]
Undefined == Val("undefined", 0, FALSE)
Null == Val("null", 0, FALSE)
Prim(n) == Val("prim", n, FALSE)
Arr == Val("array", 0, FALSE)
Obj(n) == Val("object", n, FALSE)
Frozen(n) == Val("frozen", n, FALSE)

\* The values author code passes to the setters.
InputValues ==
    {Null, Prim(1), Arr, Frozen(1)} \cup {Obj(n) : n \in 1..MaxA}
        \cup {[Obj(n) EXCEPT !.proxy = TRUE] : n \in 1..MaxA}

isArray(v) == v.kind = "array"
isUndefined(v) == v.kind = "undefined"
isObject(v) == v.kind \in {"null", "array", "object", "frozen"}
isObservable(v) == v.kind \in {"array", "object"}
getReactiveProxy(v) == [v EXCEPT !.proxy = TRUE]

\* -------------------------------------------------------- property tables
\* The per-class metadata (def.props and the wired declarations): VM 1 is an
\* instance of a class declaring the public property "title" (stored by the
\* runtime), the public property "label" (with an author-defined getter and
\* setter) and the wired properties "data" and "other"; the other VMs are
\* instances of a class declaring only "label".
PublicPropsOf(vm) == IF vm = 1 THEN {"title", "label"} ELSE {"label"}
WiredPropsOf(vm) == IF vm = 1 THEN {"data", "other"} ELSE {}
PublicProps == UNION {PublicPropsOf(vm) : vm \in VMs}
WiredProps == UNION {WiredPropsOf(vm) : vm \in VMs}
origGetter(p) == p = "label"
origSetter(p) == p = "label"

VARIABLES
    vmBeingConstructed, \* the VM whose constructor runs, or NoVM
    elm,                \* per VM: vnode.elm is an HTMLElement
    linked,             \* per VM: vm.component and the instance's VM are set
    isRendering,        \* a render pass is active
    vmBeingRendered,    \* the VM of the active render pass, or NoVM
    cmpProps,           \* per VM: vm.cmpProps, the public-props store
    cmpWired,           \* per VM: vm.cmpWired, the wired store (lazy)
    cmpState,           \* per VM: vm.cmpState, undefined until created
    cmpRoot,            \* per VM: vm.cmpRoot has been created
    dom,                \* per VM: the nodes of the subtree of vnode.elm
    subs,               \* the watcher registry: (store key, context) entries
    tabIndex,           \* per VM: the tabIndex of the host element
    cmpEvents,          \* per VM: the listeners registered on the VM
    classListObj,       \* per VM: vm.classListObj has been created
    created,            \* history: per VM and lazily created object, how
                        \* many objects the runtime constructed for it
    reads,              \* history: <<vm, key, context>> of the wired reads
                        \* made during a render pass
    last                \* history: the last call and its result

vars == <<vmBeingConstructed, elm, linked, isRendering, vmBeingRendered,
          cmpProps, cmpWired, cmpState, cmpRoot, dom, subs, tabIndex,
          cmpEvents, classListObj, created, reads, last>>

lifecycle == <<vmBeingConstructed, elm, linked, isRendering, vmBeingRendered>>

\* What the host-element members of the component keep.
host == <<tabIndex, cmpEvents, classListObj>>

\* The objects the runtime constructs lazily for a VM.
Slots == {"classList", "root", "wired", "state"}
NoneCreated == [vm \in VMs |-> [slot \in Slots |-> 0]]

\* One more object constructed for a slot of a VM.
New(vm, slot) == [created EXCEPT ![vm][slot] = @ + 1]

isBeingConstructed(vm) == vmBeingConstructed = vm

\* The wired store before and right after its lazy creation.
NoStore == [created |-> FALSE, data |-> [p \in WiredProps |-> Undefined]]
EmptyStore == [created |-> TRUE, data |-> [p \in WiredProps |-> Undefined]]

\* The record create(null) builds.
EmptyRecord == Val("object", 0, FALSE)

NoNotes == [c \in VMs |-> 0]

\* What the last call of author code was: the member called, on which
\* component, with which argument; how it ended ("returned", "logError": an
\* error was reported and nothing returned, "fail": assert.fail, "assert": an
\* assertion stopped it); what it returned; whether it delegated to an
\* author-defined accessor; how many times it notified each render context;
\* the nodes a query handed back; whether the operation on the host element
\* was performed; whether a warning was logged; the methods of the console
\* it called itself, in order; what the store held under the key when the
\* explicit notification was issued; the number of arguments of the call (0
\* for the members that do not depend on it); and the phase it ran in.
\* ("invariant": the constructor was stopped by its invariant.)
DomCall(op, vm, key, outcome, ret, nodes, performed, warned) ==
    [op |-> op, vm |-> vm, key |-> key, arg |-> Undefined,
     outcome |-> outcome, ret |-> ret, orig |-> FALSE, notes |-> NoNotes,
     nodes |-> nodes, performed |-> performed, warned |-> warned,
     console |-> <<>>, atNotify |-> Undefined, argc |-> 0,
     rendering |-> isRendering, ctx |-> vmBeingRendered,
     constructing |-> isBeingConstructed(vm)]

Call(op, vm, key, arg, outcome, ret, orig, notes) ==
    [op |-> op, vm |-> vm, key |-> key, arg |-> arg, outcome |-> outcome,
     ret |-> ret, orig |-> orig, notes |-> notes,
     nodes |-> <<>>, performed |-> FALSE, warned |-> FALSE,
     console |-> <<>>, atNotify |-> Undefined, argc |-> 0,
     rendering |-> isRendering, ctx |-> vmBeingRendered,
     constructing |-> isBeingConstructed(vm)]

NoCall ==
    [op |-> "none", vm |-> NoVM, key |-> "", arg |-> Undefined,
     outcome |-> "returned", ret |-> Undefined, orig |-> FALSE,
     notes |-> NoNotes, nodes |-> <<>>, performed |-> FALSE,
     warned |-> FALSE, console |-> <<>>, atNotify |-> Undefined,
     argc |-> 0, rendering |-> FALSE, ctx |-> NoVM, constructing |-> FALSE]

\* ----------------------------------------------------------------- watcher
\* The identity of a store's key in the registry.
Key(vm, cls, key) == [vm |-> vm, cls |-> cls, key |-> key]

subscribeToSetHook(registry, ctx, store) ==
    registry \cup {[store |-> store, ctx |-> ctx]}

Listeners(store) == {s.ctx : s \in {t \in subs : t.store = store}}

\* One walk of the subscriber set of a key: each subscribed context is
\* notified once more.
notifyListeners(notes, store) ==
    [c \in VMs |-> IF c \in Listeners(store) THEN notes[c] + 1 ELSE notes[c]]

\* The render contexts a call scheduled for re-render (scheduling
\* deduplicates by subscriber).
Scheduled(notes) == {c \in VMs : notes[c] > 0}

\* The wrapper's on-write hook of a store: the mutation is followed by one
\* notification of the key.
ProxySet(notes, store) == notifyListeners(notes, store)

\* The wrapper's on-read hook of a store: during a render pass the read
\* subscribes the rendering context to the key.
ProxyGet(registry, store) ==
    IF isRendering
    THEN subscribeToSetHook(registry, vmBeingRendered, store)
    ELSE registry

\* ------------------------------------------------------------------- Init
Init ==
    /\ vmBeingConstructed = NoVM
    /\ elm = [vm \in VMs |-> FALSE]
    /\ linked = [vm \in VMs |-> FALSE]
    /\ isRendering = FALSE
    /\ vmBeingRendered = NoVM
    /\ cmpProps = [vm \in VMs |-> [p \in PublicProps |-> Undefined]]
    /\ cmpWired = [vm \in VMs |-> NoStore]
    /\ cmpState = [vm \in VMs |-> Undefined]
    /\ cmpRoot = [vm \in VMs |-> FALSE]
    /\ dom = [vm \in VMs |-> <<>>]
    /\ subs = {}
    /\ tabIndex = [vm \in VMs |-> 0]
    /\ cmpEvents = [vm \in VMs |-> {}]
    /\ classListObj = [vm \in VMs |-> FALSE]
    /\ created = NoneCreated
    /\ reads = {}
    /\ last = NoCall

\* What the public setter leaves in the store for a value.
Stored(value) == IF isObservable(value) THEN getReactiveProxy(value) ELSE value

\* Every component constructed and idle, its constructor having set to
\* {a: 1} the public properties that the runtime stores.
InitIdle ==
    /\ vmBeingConstructed = NoVM
    /\ elm = [vm \in VMs |-> TRUE]
    /\ linked = [vm \in VMs |-> TRUE]
    /\ isRendering = FALSE
    /\ vmBeingRendered = NoVM
    /\ cmpProps = [vm \in VMs |-> [p \in PublicProps |->
                       IF p \in PublicPropsOf(vm) /\ ~origSetter(p)
                       THEN Stored(Obj(1)) ELSE Undefined]]
    /\ cmpWired = [vm \in VMs |-> NoStore]
    /\ cmpState = [vm \in VMs |-> Undefined]
    /\ cmpRoot = [vm \in VMs |-> FALSE]
    /\ dom = [vm \in VMs |-> <<>>]
    /\ subs = {}
    /\ tabIndex = [vm \in VMs |-> 0]
    /\ cmpEvents = [vm \in VMs |-> {}]
    /\ classListObj = [vm \in VMs |-> FALSE]
    /\ created = NoneCreated
    /\ reads = {}
    /\ last = NoCall

\* A constructor at work: one component is under construction, linked by
\* ComponentElement and with nothing written yet; every other component is
\* constructed and idle.
InitConstructor ==
    /\ vmBeingConstructed \in VMs
    /\ elm = [vm \in VMs |-> TRUE]
    /\ linked = [vm \in VMs |-> TRUE]
    /\ isRendering = FALSE
    /\ vmBeingRendered = NoVM
    /\ cmpProps = [vm \in VMs |-> [p \in PublicProps |->
                       IF /\ vm # vmBeingConstructed
                          /\ p \in PublicPropsOf(vm)
                          /\ ~origSetter(p)
                       THEN Stored(Obj(1)) ELSE Undefined]]
    /\ cmpWired = [vm \in VMs |-> NoStore]
    /\ cmpState = [vm \in VMs |-> Undefined]
    /\ cmpRoot = [vm \in VMs |-> FALSE]
    /\ dom = [vm \in VMs |-> <<>>]
    /\ subs = {}
    /\ tabIndex = [vm \in VMs |-> 0]
    /\ cmpEvents = [vm \in VMs |-> {}]
    /\ classListObj = [vm \in VMs |-> FALSE]
    /\ created = NoneCreated
    /\ reads = {}
    /\ last = NoCall

\* --------------------------------------------------------------- lifecycle
BeginConstruction(vm) ==
    /\ vmBeingConstructed = NoVM
    /\ ~isRendering
    /\ ~linked[vm]
    /\ vmBeingConstructed' = vm
    /\ \E e \in BOOLEAN : elm' = [elm EXCEPT ![vm] = e]
    /\ UNCHANGED <<host, created,
                   linked, isRendering, vmBeingRendered, cmpProps, cmpWired,
                   cmpState, cmpRoot, dom, subs, reads, last>>

\* The constructor linking the component and the VM before it tests the
\* invariant.
ComponentElementLinksFirst ==
    /\ vmBeingConstructed # NoVM
    /\ ~linked[vmBeingConstructed]
    /\ linked' = [linked EXCEPT ![vmBeingConstructed] = TRUE]
    /\ last' = DomCall("ComponentElement", vmBeingConstructed, "",
                       IF elm[vmBeingConstructed]
                       THEN "returned" ELSE "invariant",
                       Undefined, <<>>, FALSE, FALSE)
    /\ UNCHANGED <<host, created,
                   vmBeingConstructed, elm, isRendering, vmBeingRendered,
                   cmpProps, cmpWired, cmpState, cmpRoot, dom, subs, reads>>

\* The constructor: without a DOM element for the vnode the invariant stops
\* it before the component and the VM are linked.
ComponentElement ==
    /\ vmBeingConstructed # NoVM
    /\ ~linked[vmBeingConstructed]
    /\ IF elm[vmBeingConstructed]
       THEN /\ linked' = [linked EXCEPT ![vmBeingConstructed] = TRUE]
            /\ last' = DomCall("ComponentElement", vmBeingConstructed, "",
                               "returned", Undefined, <<>>, FALSE, FALSE)
       ELSE /\ last' = DomCall("ComponentElement", vmBeingConstructed, "",
                               "invariant", Undefined, <<>>, FALSE, FALSE)
            /\ UNCHANGED linked
    /\ UNCHANGED <<host, created,
                   vmBeingConstructed, elm, isRendering, vmBeingRendered,
                   cmpProps, cmpWired, cmpState, cmpRoot, dom, subs, reads>>

EndConstruction ==
    /\ vmBeingConstructed # NoVM
    /\ linked[vmBeingConstructed]
    /\ vmBeingConstructed' = NoVM
    /\ UNCHANGED <<host, created,
                   elm, linked, isRendering, vmBeingRendered, cmpProps,
                   cmpWired, cmpState, cmpRoot, dom, subs, reads, last>>

StartRender(vm) ==
    /\ ~isRendering
    /\ vmBeingConstructed = NoVM
    /\ linked[vm]
    /\ isRendering' = TRUE
    /\ vmBeingRendered' = vm
    /\ UNCHANGED <<host, created,
                   vmBeingConstructed, elm, linked, cmpProps, cmpWired,
                   cmpState, cmpRoot, dom, subs, reads, last>>

EndRender ==
    /\ isRendering
    /\ isRendering' = FALSE
    /\ vmBeingRendered' = NoVM
    /\ UNCHANGED <<host, created,
                   vmBeingConstructed, elm, linked, cmpProps, cmpWired,
                   cmpState, cmpRoot, dom, subs, reads, last>>

\* The assertion of assert.isFalse: the call goes on only when the value is
\* false.
assertIsFalse(value) == ~value

\* ------------------------------------------------------- public properties
\* What an author-defined getter may hand back.
AuthorValues == {Undefined, Prim(1)}

\* PublicGet without the construction check.
PublicGetAnyPhase(vm, p) ==
    /\ linked[vm]
    /\ IF origGetter(p)
       THEN /\ \E r \in AuthorValues :
                    last' = Call("publicGet", vm, p, Undefined, "returned",
                                 r, TRUE, NoNotes)
            /\ UNCHANGED subs
       ELSE /\ subs' = IF isRendering
                       THEN subscribeToSetHook(subs, vmBeingRendered,
                                               Key(vm, "props", p))
                       ELSE subs
            /\ last' = Call("publicGet", vm, p, Undefined, "returned",
                            cmpProps[vm][p], FALSE, NoNotes)
    /\ UNCHANGED <<host, created,
                   lifecycle, cmpProps, cmpWired, cmpState, cmpRoot, dom, reads>>

\* PublicGet subscribing the owner of the property instead of the context
\* being rendered.
PublicGetOwnerSubscribes(vm, p) ==
    /\ linked[vm]
    /\ IF isBeingConstructed(vm)
       THEN /\ last' = Call("publicGet", vm, p, Undefined, "logError",
                            Undefined, FALSE, NoNotes)
            /\ UNCHANGED subs
       ELSE IF origGetter(p)
       THEN /\ \E r \in AuthorValues :
                    last' = Call("publicGet", vm, p, Undefined, "returned",
                                 r, TRUE, NoNotes)
            /\ UNCHANGED subs
       ELSE /\ subs' = IF isRendering
                       THEN subscribeToSetHook(subs, vm, Key(vm, "props", p))
                       ELSE subs
            /\ last' = Call("publicGet", vm, p, Undefined, "returned",
                            cmpProps[vm][p], FALSE, NoNotes)
    /\ UNCHANGED <<host, created,
                   lifecycle, cmpProps, cmpWired, cmpState, cmpRoot, dom, reads>>

PublicGet(vm, p) ==
    /\ linked[vm]
    /\ IF isBeingConstructed(vm)
       THEN /\ last' = Call("publicGet", vm, p, Undefined, "logError",
                            Undefined, FALSE, NoNotes)
            /\ UNCHANGED subs
       ELSE IF origGetter(p)
       THEN /\ \E r \in AuthorValues :
                    last' = Call("publicGet", vm, p, Undefined, "returned",
                                 r, TRUE, NoNotes)
            /\ UNCHANGED subs
       ELSE /\ subs' = IF isRendering
                       THEN subscribeToSetHook(subs, vmBeingRendered,
                                               Key(vm, "props", p))
                       ELSE subs
            /\ last' = Call("publicGet", vm, p, Undefined, "returned",
                            cmpProps[vm][p], FALSE, NoNotes)
    /\ UNCHANGED <<host, created,
                   lifecycle, cmpProps, cmpWired, cmpState, cmpRoot, dom, reads>>

\* PublicSet without the construction check.
PublicSetAnyPhase(vm, p, value) ==
    /\ linked[vm]
    /\ IF origSetter(p)
       THEN /\ last' = Call("publicSet", vm, p, value, "returned", Undefined,
                            TRUE, NoNotes)
            /\ UNCHANGED cmpProps
       ELSE /\ cmpProps' = [cmpProps EXCEPT ![vm][p] =
                                IF isObservable(value)
                                THEN getReactiveProxy(value) ELSE value]
            /\ last' = [Call("publicSet", vm, p, value, "returned",
                             Undefined, FALSE, NoNotes)
                            EXCEPT !.warned = ~isObservable(value)
                                                 /\ isObject(value)]
    /\ UNCHANGED <<host, created,
                   lifecycle, cmpWired, cmpState, cmpRoot, dom, subs, reads>>

\* PublicSet handing the write to the author-defined setter before it
\* tests the construction phase.
PublicSetDelegatesFirst(vm, p, value) ==
    /\ linked[vm]
    /\ IF origSetter(p)
       THEN /\ last' = Call("publicSet", vm, p, value, "returned", Undefined,
                            TRUE, NoNotes)
            /\ UNCHANGED cmpProps
       ELSE IF ~isBeingConstructed(vm)
       THEN /\ last' = Call("publicSet", vm, p, value, "logError", Undefined,
                            FALSE, NoNotes)
            /\ UNCHANGED cmpProps
       ELSE /\ cmpProps' = [cmpProps EXCEPT ![vm][p] =
                                IF isObservable(value)
                                THEN getReactiveProxy(value) ELSE value]
            /\ last' = [Call("publicSet", vm, p, value, "returned",
                             Undefined, FALSE, NoNotes)
                            EXCEPT !.warned = ~isObservable(value)
                                                 /\ isObject(value)]
    /\ UNCHANGED <<host, created,
                   lifecycle, cmpWired, cmpState, cmpRoot, dom, subs, reads>>

PublicSet(vm, p, value) ==
    /\ linked[vm]
    /\ IF ~isBeingConstructed(vm)
       THEN /\ last' = Call("publicSet", vm, p, value, "logError", Undefined,
                            FALSE, NoNotes)
            /\ UNCHANGED cmpProps
       ELSE IF origSetter(p)
       THEN /\ last' = Call("publicSet", vm, p, value, "returned", Undefined,
                            TRUE, NoNotes)
            /\ UNCHANGED cmpProps
       ELSE /\ cmpProps' = [cmpProps EXCEPT ![vm][p] =
                                IF isObservable(value)
                                THEN getReactiveProxy(value) ELSE value]
            /\ last' = [Call("publicSet", vm, p, value, "returned",
                             Undefined, FALSE, NoNotes)
                            EXCEPT !.warned = ~isObservable(value)
                                                 /\ isObject(value)]
    /\ UNCHANGED <<host, created,
                   lifecycle, cmpWired, cmpState, cmpRoot, dom, subs, reads>>

\* -------------------------------------------------------- wired properties
WiredGet(vm, p) ==
    LET store == IF cmpWired[vm].created THEN cmpWired[vm] ELSE EmptyStore
    IN  /\ linked[vm]
        /\ cmpWired' = [cmpWired EXCEPT ![vm] = store]
        /\ created' = IF cmpWired[vm].created THEN created
                      ELSE New(vm, "wired")
        /\ subs' = IF isRendering
                   THEN subscribeToSetHook(
                            ProxyGet(subs, Key(vm, "wired", p)),
                            vmBeingRendered, Key(vm, "wired", p))
                   ELSE ProxyGet(subs, Key(vm, "wired", p))
        /\ reads' = IF isRendering
                    THEN reads \cup {<<vm, p, vmBeingRendered>>}
                    ELSE reads
        /\ last' = Call("wiredGet", vm, p, Undefined, "returned",
                        store.data[p], FALSE, NoNotes)
        /\ UNCHANGED <<host,
                       lifecycle, cmpProps, cmpState, cmpRoot, dom>>

\* WiredSet without the explicit notification after the store.
WiredSetNoNotify(vm, p, value) ==
    LET store == IF cmpWired[vm].created THEN cmpWired[vm] ELSE EmptyStore
    IN  /\ linked[vm]
        /\ IF isArray(value) \/ ~isObservable(value)
           THEN /\ last' = Call("wiredSet", vm, p, value, "fail", Undefined,
                                FALSE, NoNotes)
                /\ UNCHANGED <<cmpWired, created>>
           ELSE /\ created' = IF cmpWired[vm].created THEN created
                               ELSE New(vm, "wired")
                /\ cmpWired' = [cmpWired EXCEPT ![vm] =
                                    [store EXCEPT !.data[p] =
                                        getReactiveProxy(value)]]
                /\ last' = Call("wiredSet", vm, p, value, "returned",
                                Undefined, FALSE,
                                ProxySet(NoNotes, Key(vm, "wired", p)))
        /\ UNCHANGED <<host,
                       lifecycle, cmpProps, cmpState, cmpRoot, dom, subs, reads>>

\* WiredSet testing only that the value is observable.
WiredSetArrays(vm, p, value) ==
    LET store == IF cmpWired[vm].created THEN cmpWired[vm] ELSE EmptyStore
    IN  /\ linked[vm]
        /\ IF ~isObservable(value)
           THEN /\ last' = Call("wiredSet", vm, p, value, "fail", Undefined,
                                FALSE, NoNotes)
                /\ UNCHANGED <<cmpWired, created>>
           ELSE /\ created' = IF cmpWired[vm].created THEN created
                               ELSE New(vm, "wired")
                /\ cmpWired' = [cmpWired EXCEPT ![vm] =
                                    [store EXCEPT !.data[p] =
                                        getReactiveProxy(value)]]
                /\ last' = Call("wiredSet", vm, p, value, "returned",
                                Undefined, FALSE,
                                notifyListeners(
                                    ProxySet(NoNotes, Key(vm, "wired", p)),
                                    Key(vm, "wired", p)))
        /\ UNCHANGED <<host,
                       lifecycle, cmpProps, cmpState, cmpRoot, dom, subs, reads>>

\* WiredSet notifying the subscribers of every key of the store.
WiredSetNotifiesAll(vm, p, value) ==
    LET store == IF cmpWired[vm].created THEN cmpWired[vm] ELSE EmptyStore
        all == {s.ctx : s \in {t \in subs : t.store.vm = vm
                                            /\ t.store.cls = "wired"}}
    IN  /\ linked[vm]
        /\ IF isArray(value) \/ ~isObservable(value)
           THEN /\ last' = Call("wiredSet", vm, p, value, "fail", Undefined,
                                FALSE, NoNotes)
                /\ UNCHANGED <<cmpWired, created>>
           ELSE /\ created' = IF cmpWired[vm].created THEN created
                               ELSE New(vm, "wired")
                /\ cmpWired' = [cmpWired EXCEPT ![vm] =
                                    [store EXCEPT !.data[p] =
                                        getReactiveProxy(value)]]
                /\ last' = Call("wiredSet", vm, p, value, "returned",
                                Undefined, FALSE,
                                [c \in VMs |-> IF c \in all THEN 2 ELSE 0])
        /\ UNCHANGED <<host,
                       lifecycle, cmpProps, cmpState, cmpRoot, dom, subs, reads>>

\* WiredSet issuing the explicit notification before it stores the value.
WiredSetNotifiesFirst(vm, p, value) ==
    LET store == IF cmpWired[vm].created THEN cmpWired[vm] ELSE EmptyStore
        written == [store EXCEPT !.data[p] = getReactiveProxy(value)]
    IN  /\ linked[vm]
        /\ IF isArray(value) \/ ~isObservable(value)
           THEN /\ last' = Call("wiredSet", vm, p, value, "fail", Undefined,
                                FALSE, NoNotes)
                /\ UNCHANGED <<cmpWired, created>>
           ELSE /\ created' = IF cmpWired[vm].created THEN created
                               ELSE New(vm, "wired")
                /\ cmpWired' = [cmpWired EXCEPT ![vm] = written]
                /\ last' = [Call("wiredSet", vm, p, value, "returned",
                                 Undefined, FALSE,
                                 ProxySet(
                                     notifyListeners(NoNotes,
                                                     Key(vm, "wired", p)),
                                     Key(vm, "wired", p)))
                                EXCEPT !.atNotify = store.data[p]]
        /\ UNCHANGED <<host,
                       lifecycle, cmpProps, cmpState, cmpRoot, dom, subs, reads>>

\* The wired setter: the value is stored through the wrapper of the store
\* (whose on-write hook notifies the key) and then the key is notified
\* explicitly, the store holding the new value by then.
WiredSet(vm, p, value) ==
    LET store == IF cmpWired[vm].created THEN cmpWired[vm] ELSE EmptyStore
        written == [store EXCEPT !.data[p] = getReactiveProxy(value)]
    IN  /\ linked[vm]
        /\ IF isArray(value) \/ ~isObservable(value)
           THEN /\ last' = Call("wiredSet", vm, p, value, "fail", Undefined,
                                FALSE, NoNotes)
                /\ UNCHANGED <<cmpWired, created>>
           ELSE /\ created' = IF cmpWired[vm].created THEN created
                               ELSE New(vm, "wired")
                /\ cmpWired' = [cmpWired EXCEPT ![vm] = written]
                /\ last' = [Call("wiredSet", vm, p, value, "returned",
                                 Undefined, FALSE,
                                 notifyListeners(
                                     ProxySet(NoNotes, Key(vm, "wired", p)),
                                     Key(vm, "wired", p)))
                                EXCEPT !.atNotify = written.data[p]]
        /\ UNCHANGED <<host,
                       lifecycle, cmpProps, cmpState, cmpRoot, dom, subs, reads>>

\* ------------------------------------------------------------------- state
StateGet(vm) ==
    LET store == IF isUndefined(cmpState[vm])
                 THEN getReactiveProxy(EmptyRecord) ELSE cmpState[vm]
    IN  /\ linked[vm]
        /\ cmpState' = [cmpState EXCEPT ![vm] = store]
        /\ created' = IF isUndefined(cmpState[vm])
                      THEN New(vm, "state") ELSE created
        /\ last' = Call("stateGet", vm, "state", Undefined, "returned", store,
                        FALSE, NoNotes)
        /\ UNCHANGED <<host,
                       lifecycle, cmpProps, cmpWired, cmpRoot, dom, subs, reads>>

\* StateSet testing only that the value is observable.
StateSetArrays(vm, newState) ==
    /\ linked[vm]
    /\ IF ~isObservable(newState)
       THEN /\ last' = Call("stateSet", vm, "state", newState, "fail",
                            Undefined, FALSE, NoNotes)
            /\ UNCHANGED cmpState
       ELSE /\ cmpState' = [cmpState EXCEPT ![vm] = getReactiveProxy(newState)]
            /\ last' = Call("stateSet", vm, "state", newState, "returned",
                            Undefined, FALSE, NoNotes)
    /\ UNCHANGED <<host, created,
                   lifecycle, cmpProps, cmpWired, cmpRoot, dom, subs, reads>>

\* StateSet making a new wrapper around a value that is a wrapper already.
StateSetRewraps(vm, newState) ==
    /\ linked[vm]
    /\ IF isArray(newState) \/ ~isObservable(newState)
       THEN /\ last' = Call("stateSet", vm, "state", newState, "fail",
                            Undefined, FALSE, NoNotes)
            /\ UNCHANGED cmpState
       ELSE /\ cmpState' = [cmpState EXCEPT ![vm] =
                               IF newState.proxy
                               THEN Val("wrapper", newState.a, TRUE)
                               ELSE getReactiveProxy(newState)]
            /\ last' = Call("stateSet", vm, "state", newState, "returned",
                            Undefined, FALSE, NoNotes)
    /\ UNCHANGED <<host, created,
                   lifecycle, cmpProps, cmpWired, cmpRoot, dom, subs, reads>>

StateSet(vm, newState) ==
    /\ linked[vm]
    /\ IF isArray(newState) \/ ~isObservable(newState)
       THEN /\ last' = Call("stateSet", vm, "state", newState, "fail",
                            Undefined, FALSE, NoNotes)
            /\ UNCHANGED cmpState
       ELSE /\ cmpState' = [cmpState EXCEPT ![vm] = getReactiveProxy(newState)]
            /\ last' = Call("stateSet", vm, "state", newState, "returned",
                            Undefined, FALSE, NoNotes)
    /\ UNCHANGED <<host, created,
                   lifecycle, cmpProps, cmpWired, cmpRoot, dom, subs, reads>>

\* ------------------------------------------------------- the host element
\* The subtree of a host element: its nodes in document order, each with its
\* tag and whether the composer passed it in (otherwise the component's own
\* template declared it).
Tags == {"p", "span"}
Selectors == {"p", "*"}
Nodes == [tag : Tags, passed : BOOLEAN]

Matches(node, sel) == sel = "*" \/ node.tag = sel

\* The native query: the positions of the matching nodes, in document order.
querySelectorAllFromComponent(vm, sel) ==
    SelectSeq([i \in 1..Len(dom[vm]) |-> i],
              LAMBDA i : Matches(dom[vm][i], sel))

wasNodePassedIntoVM(vm, i) == dom[vm][i].passed

shadowRootQuerySelectorAll(vm, sel) ==
    SelectSeq([i \in 1..Len(dom[vm]) |-> i],
              LAMBDA i : Matches(dom[vm][i], sel) /\ ~dom[vm][i].passed)

\* The membrane: what author code gets is a proxy of the node or list.
pierce(vm, value) == [value EXCEPT !.proxy = TRUE]
NodeAt(i) == Val("node", i, FALSE)
NodeList(n) == Val("nodelist", n, FALSE)

\* The loop of querySelector: the first node of the list, from position i
\* on, that was passed in; 0 when there is none.
RECURSIVE FirstPassedIn(_, _, _)
FirstPassedIn(vm, nodeList, i) ==
    IF i > Len(nodeList) THEN 0
    ELSE IF wasNodePassedIntoVM(vm, nodeList[i]) THEN nodeList[i]
    ELSE FirstPassedIn(vm, nodeList, i + 1)

\* The number of nodes in the subtrees of the components 1..n.
RECURSIVE DocumentSize(_)
DocumentSize(n) == IF n = 0 THEN 0 ELSE Len(dom[n]) + DocumentSize(n - 1)

\* The engine patches a node into the subtree of a constructed component
\* (no constructor is running: the engine is not inside author code).
AppendChild(vm, node) ==
    /\ linked[vm]
    /\ vmBeingConstructed = NoVM
    /\ DocumentSize(NumVMs) < MaxNodes
    /\ dom' = [dom EXCEPT ![vm] = Append(@, node)]
    /\ UNCHANGED <<host, created,
                   lifecycle, cmpProps, cmpWired, cmpState, cmpRoot, subs,
                   reads, last>>

\* DispatchEvent without the construction assertion.
DispatchEventAnyPhase(vm) ==
    /\ linked[vm]
    /\ \E r \in {0, 1} : \E w \in BOOLEAN :
           last' = DomCall("dispatchEvent", vm, "", "returned", Prim(r),
                           <<>>, TRUE, w)
    /\ UNCHANGED <<host, created,
                   lifecycle, cmpProps, cmpWired, cmpState, cmpRoot, dom,
                   subs, reads>>

DispatchEvent(vm) ==
    /\ linked[vm]
    /\ IF ~assertIsFalse(isBeingConstructed(vm))
       THEN last' = DomCall("dispatchEvent", vm, "", "assert", Undefined,
                            <<>>, FALSE, FALSE)
       ELSE \E r \in {0, 1} : \E w \in BOOLEAN :
                last' = DomCall("dispatchEvent", vm, "", "returned", Prim(r),
                                <<>>, TRUE, w)
    /\ UNCHANGED <<host, created,
                   lifecycle, cmpProps, cmpWired, cmpState, cmpRoot, dom,
                   subs, reads>>

GetBoundingClientRect(vm) ==
    /\ linked[vm]
    /\ IF ~assertIsFalse(isBeingConstructed(vm))
       THEN last' = DomCall("getBoundingClientRect", vm, "", "assert",
                            Undefined, <<>>, FALSE, FALSE)
       ELSE last' = DomCall("getBoundingClientRect", vm, "", "returned",
                            Val("rect", 0, FALSE), <<>>, TRUE, FALSE)
    /\ UNCHANGED <<host, created,
                   lifecycle, cmpProps, cmpWired, cmpState, cmpRoot, dom,
                   subs, reads>>

QuerySelector(vm, sel) ==
    LET nodeList == querySelectorAllFromComponent(vm, sel)
        found == FirstPassedIn(vm, nodeList, 1)
    IN  /\ linked[vm]
        /\ IF ~assertIsFalse(isBeingConstructed(vm))
           THEN /\ last' = DomCall("querySelector", vm, sel, "assert",
                                   Undefined, <<>>, FALSE, FALSE)
                /\ UNCHANGED <<cmpRoot, created>>
           ELSE IF found # 0
           THEN /\ last' = DomCall("querySelector", vm, sel, "returned",
                                   pierce(vm, NodeAt(found)), <<found>>,
                                   TRUE, FALSE)
                /\ UNCHANGED <<cmpRoot, created>>
           ELSE /\ cmpRoot' = [cmpRoot EXCEPT ![vm] = TRUE]
                /\ created' = IF cmpRoot[vm] THEN created
                               ELSE New(vm, "root")
                /\ last' = DomCall("querySelector", vm, sel, "returned",
                                   Null, <<>>, TRUE,
                                   shadowRootQuerySelectorAll(vm, sel) # <<>>)
        /\ UNCHANGED <<host,
                       lifecycle, cmpProps, cmpWired, cmpState, dom, subs,
                       reads>>

\* QuerySelectorAll handing back the native list unfiltered.
QuerySelectorAllUnfiltered(vm, sel) ==
    LET filteredNodes == querySelectorAllFromComponent(vm, sel)
    IN  /\ linked[vm]
        /\ IF ~assertIsFalse(isBeingConstructed(vm))
           THEN /\ last' = DomCall("querySelectorAll", vm, sel, "assert",
                                   Undefined, <<>>, FALSE, FALSE)
                /\ UNCHANGED <<cmpRoot, created>>
           ELSE /\ cmpRoot' = IF Len(filteredNodes) = 0
                              THEN [cmpRoot EXCEPT ![vm] = TRUE]
                              ELSE cmpRoot
                /\ created' = IF Len(filteredNodes) = 0 /\ ~cmpRoot[vm]
                               THEN New(vm, "root") ELSE created
                /\ last' = DomCall("querySelectorAll", vm, sel, "returned",
                                   pierce(vm, NodeList(Len(filteredNodes))),
                                   filteredNodes, TRUE, FALSE)
        /\ UNCHANGED <<host,
                       lifecycle, cmpProps, cmpWired, cmpState, dom, subs,
                       reads>>

QuerySelectorAll(vm, sel) ==
    LET nodeList == querySelectorAllFromComponent(vm, sel)
        filteredNodes ==
            SelectSeq(nodeList, LAMBDA i : wasNodePassedIntoVM(vm, i))
    IN  /\ linked[vm]
        /\ IF ~assertIsFalse(isBeingConstructed(vm))
           THEN /\ last' = DomCall("querySelectorAll", vm, sel, "assert",
                                   Undefined, <<>>, FALSE, FALSE)
                /\ UNCHANGED <<cmpRoot, created>>
           ELSE /\ cmpRoot' = IF Len(filteredNodes) = 0
                              THEN [cmpRoot EXCEPT ![vm] = TRUE]
                              ELSE cmpRoot
                /\ created' = IF Len(filteredNodes) = 0 /\ ~cmpRoot[vm]
                               THEN New(vm, "root") ELSE created
                /\ last' = DomCall("querySelectorAll", vm, sel, "returned",
                                   pierce(vm, NodeList(Len(filteredNodes))),
                                   filteredNodes, TRUE,
                                   /\ Len(filteredNodes) = 0
                                   /\ shadowRootQuerySelectorAll(vm, sel)
                                          # <<>>)
        /\ UNCHANGED <<host,
                       lifecycle, cmpProps, cmpWired, cmpState, dom, subs,
                       reads>>

\* ------------------------------------------------ global HTML attributes
\* The metadata table of the global HTML properties: for each name the
\* reflective attribute ("" when there is none), whether the property is
\* read-only or experimental, and whether the table carries an error
\* message for it.
GlobalHTMLProperties ==
    [tabIndex |-> [attribute |-> "tabindex", readOnly |-> FALSE,
                   experimental |-> FALSE, error |-> FALSE],
     hidden |-> [attribute |-> "hidden", readOnly |-> FALSE,
                 experimental |-> FALSE, error |-> FALSE],
     dropzone |-> [attribute |-> "dropzone", readOnly |-> FALSE,
                   experimental |-> TRUE, error |-> FALSE],
     isContentEditable |-> [attribute |-> "", readOnly |-> TRUE,
                            experimental |-> FALSE, error |-> FALSE],
     slot |-> [attribute |-> "slot", readOnly |-> FALSE,
               experimental |-> TRUE, error |-> TRUE]]

\* The names ComponentElement.prototype defines itself.
Prototype ==
    {"renderedCallback", "render", "connectedCallback",
     "disconnectedCallback", "dispatchEvent", "addEventListener",
     "removeEventListener", "getAttribute", "getBoundingClientRect",
     "querySelector", "querySelectorAll", "tagName", "tabIndex", "classList",
     "root", "state", "toString"}

\* The names that get a disabled accessor: the global HTML properties the
\* prototype does not expose already.
DisabledProps == {n \in DOMAIN GlobalHTMLProperties : n \notin Prototype}

\* The number of lines of the message of a disabled accessor.
MsgLines(propName) ==
    LET g == GlobalHTMLProperties[propName]
    IN  1 + (IF g.error THEN 1
             ELSE (IF g.experimental THEN 1 ELSE 0)
                  + (IF g.readOnly THEN 1 ELSE 0)
                  + (IF g.attribute # "" THEN 3 ELSE 0))

\* The disabled accessor logging each line of its message by itself.
DisabledGetPerLine(vm, propName) ==
    /\ linked[vm]
    /\ last' = [DomCall("disabledGet", vm, propName, "returned", Undefined,
                        <<>>, FALSE, FALSE)
                    EXCEPT !.console = [i \in 1..MsgLines(propName) |-> "log"]]
    /\ UNCHANGED <<host, created, lifecycle, cmpProps, cmpWired, cmpState,
                   cmpRoot, dom, subs, reads>>

\* The getter of a disabled global HTML property: the lines of the message
\* are joined and logged as one entry, and nothing is returned.
DisabledGet(vm, propName) ==
    /\ linked[vm]
    /\ last' = [DomCall("disabledGet", vm, propName, "returned", Undefined,
                        <<>>, FALSE, FALSE)
                    EXCEPT !.console = <<"log">>]
    /\ UNCHANGED <<host, created, lifecycle, cmpProps, cmpWired, cmpState,
                   cmpRoot, dom, subs, reads>>

\* ---------------------------------------------------------------- tabIndex
TabValues == {0, 1}

TabIndexGet(vm) ==
    /\ linked[vm]
    /\ last' = DomCall("tabIndexGet", vm, "tabIndex", "returned",
                       Prim(tabIndex[vm]), <<>>, TRUE, FALSE)
    /\ UNCHANGED <<host, created, lifecycle, cmpProps, cmpWired, cmpState,
                   cmpRoot, dom, subs, reads>>

\* TabIndexSet without the assertion on the rendering flag.
TabIndexSetWhileRendering(vm, value) ==
    /\ linked[vm]
    /\ IF isBeingConstructed(vm)
       THEN /\ last' = [DomCall("tabIndexSet", vm, "tabIndex", "fail",
                                Undefined, <<>>, FALSE, FALSE)
                            EXCEPT !.arg = Prim(value)]
            /\ UNCHANGED tabIndex
       ELSE /\ tabIndex' = [tabIndex EXCEPT ![vm] = value]
            /\ last' = [DomCall("tabIndexSet", vm, "tabIndex", "returned",
                                Undefined, <<>>, TRUE, FALSE)
                            EXCEPT !.arg = Prim(value)]
    /\ UNCHANGED <<cmpEvents, classListObj, created, lifecycle, cmpProps,
                   cmpWired, cmpState, cmpRoot, dom, subs, reads>>

TabIndexSet(vm, value) ==
    /\ linked[vm]
    /\ IF ~assertIsFalse(isRendering)
       THEN /\ last' = [DomCall("tabIndexSet", vm, "tabIndex", "assert",
                                Undefined, <<>>, FALSE, FALSE)
                            EXCEPT !.arg = Prim(value)]
            /\ UNCHANGED tabIndex
       ELSE IF isBeingConstructed(vm)
       THEN /\ last' = [DomCall("tabIndexSet", vm, "tabIndex", "fail",
                                Undefined, <<>>, FALSE, FALSE)
                            EXCEPT !.arg = Prim(value)]
            /\ UNCHANGED tabIndex
       ELSE /\ tabIndex' = [tabIndex EXCEPT ![vm] = value]
            /\ last' = [DomCall("tabIndexSet", vm, "tabIndex", "returned",
                                Undefined, <<>>, TRUE, FALSE)
                            EXCEPT !.arg = Prim(value)]
    /\ UNCHANGED <<cmpEvents, classListObj, created, lifecycle, cmpProps,
                   cmpWired, cmpState, cmpRoot, dom, subs, reads>>

\* ------------------------------------------------------------ getAttribute
\* The raw values the compiler leaves in vnode.data.attrs.
Str(n) == Val("string", n, FALSE)
EmptyString == Str(0)
True == Val("boolean", 1, FALSE)
False == Val("boolean", 0, FALSE)

AttrNames ==
    {"", "title", "label", "hidden", "dropzone", "slot", "data-id", "lang"}

\* vnode.data.attrs of a VM: VM 1 was given attributes by its owner, the
\* other VMs were given none (attrs is undefined).
AttrsOf(vm) ==
    IF vm = 1
    THEN [defined |-> TRUE,
          map |-> [n \in {"title", "hidden", "slot", "data-id"} |->
                      CASE n = "title" -> Str(1)
                        [] n = "hidden" -> True
                        [] n = "slot" -> False
                        [] n = "data-id" -> Prim(1)]]
    ELSE [defined |-> FALSE, map |-> [n \in {} |-> Null]]

\* The property name of an attribute name (dashes to camel case).
getPropNameFromAttrName(attrName) ==
    IF attrName = "data-id" THEN "dataId" ELSE attrName

\* The normalisation of a raw attribute value: true is the empty string,
\* false and null are null, anything else is its string.
toAttributeValue(raw) ==
    IF raw = True THEN EmptyString
    ELSE IF raw = False \/ raw = Null THEN Null
    ELSE Str(raw.a)

\* getAttribute called with argc arguments, the first of them attrName (the
\* empty name stands for every falsy one, a missing one included).
GetAttribute(vm, argc, attrName) ==
    LET attrs == AttrsOf(vm)
        propName == getPropNameFromAttrName(attrName)
        raw == IF attrs.defined /\ attrName \in DOMAIN attrs.map
               THEN attrs.map[attrName] ELSE Null
        known == /\ propName \in DOMAIN GlobalHTMLProperties
                 /\ GlobalHTMLProperties[propName].attribute # ""
        entry == IF known /\ (GlobalHTMLProperties[propName].error
                              \/ GlobalHTMLProperties[propName].experimental)
                 THEN <<"error">> ELSE <<>>
        call(outcome, ret) ==
            [DomCall("getAttribute", vm, attrName, outcome, ret, <<>>,
                     FALSE, FALSE) EXCEPT !.argc = argc]
    IN  /\ linked[vm]
        /\ argc = 0 => attrName = ""
        /\ last' = IF attrName = ""
                   THEN IF argc = 0 THEN call("TypeError", Undefined)
                        ELSE call("returned", Null)
                   ELSE IF propName \in PublicPropsOf(vm)
                   THEN call("ReferenceError", Undefined)
                   ELSE [call("returned", toAttributeValue(raw))
                            EXCEPT !.console = entry]
        /\ UNCHANGED <<host, created, lifecycle, cmpProps, cmpWired,
                       cmpState, cmpRoot, dom, subs, reads>>

\* --------------------------------------------------------- event listeners
EventTypes == {"click", "focus"}
Handlers == {1, 2}
Fn(n) == Val("function", n, FALSE)

\* The registrations of a VM after one more, and after one less.
addComponentEventListener(events, type, listener) ==
    events \cup {<<type, listener>>}
removeComponentEventListener(events, type, listener) ==
    events \ {<<type, listener>>}

\* What `arguments.length` is inside `function devModeCheck()`: the
\* arguments of devModeCheck itself, which assert.block calls with none
\* (not the arguments of the method around it).
devModeCheckArguments == 0

\* addEventListener called with argc arguments, the first two of them the
\* type and the listener.
AddEventListener(vm, argc, type, listener) ==
    /\ linked[vm]
    /\ cmpEvents' = [cmpEvents EXCEPT ![vm] =
                        addComponentEventListener(@, type, listener)]
    /\ last' = [DomCall("addEventListener", vm, type, "returned", Undefined,
                        <<>>, TRUE, devModeCheckArguments > 2)
                    EXCEPT !.arg = Fn(listener), !.argc = argc]
    /\ UNCHANGED <<tabIndex, classListObj, created, lifecycle, cmpProps,
                   cmpWired, cmpState, cmpRoot, dom, subs, reads>>

RemoveEventListener(vm, argc, type, listener) ==
    /\ linked[vm]
    /\ cmpEvents' = [cmpEvents EXCEPT ![vm] =
                        removeComponentEventListener(@, type, listener)]
    /\ last' = [DomCall("removeEventListener", vm, type, "returned",
                        Undefined, <<>>, TRUE, devModeCheckArguments > 2)
                    EXCEPT !.arg = Fn(listener), !.argc = argc]
    /\ UNCHANGED <<tabIndex, classListObj, created, lifecycle, cmpProps,
                   cmpWired, cmpState, cmpRoot, dom, subs, reads>>

\* ------------------------------------------------------ classList and root
\* The objects made for a VM are told apart by their number: what a getter
\* hands back is the object the VM holds, the last one made for it.
ClassListOf(n) == Val("classList", n, FALSE)
RootOf(n) == Val("root", n, FALSE)

\* ClassListGet making a new object at every access.
ClassListGetAlwaysNew(vm) ==
    /\ linked[vm]
    /\ classListObj' = [classListObj EXCEPT ![vm] = TRUE]
    /\ created' = New(vm, "classList")
    /\ last' = DomCall("classListGet", vm, "classList", "returned",
                       ClassListOf(created'[vm]["classList"]), <<>>,
                       FALSE, FALSE)
    /\ UNCHANGED <<tabIndex, cmpEvents, lifecycle, cmpProps, cmpWired,
                   cmpState, cmpRoot, dom, subs, reads>>

\* The getter of classList: the object (and with it vm.cmpClasses) is made
\* at the first access.
ClassListGet(vm) ==
    /\ linked[vm]
    /\ classListObj' = [classListObj EXCEPT ![vm] = TRUE]
    /\ created' = IF classListObj[vm] THEN created
                  ELSE New(vm, "classList")
    /\ last' = DomCall("classListGet", vm, "classList", "returned",
                       ClassListOf(created'[vm]["classList"]), <<>>,
                       FALSE, FALSE)
    /\ UNCHANGED <<tabIndex, cmpEvents, lifecycle, cmpProps, cmpWired,
                   cmpState, cmpRoot, dom, subs, reads>>

\* The getter of root: the object is made at the first access.
RootGet(vm) ==
    /\ linked[vm]
    /\ cmpRoot' = [cmpRoot EXCEPT ![vm] = TRUE]
    /\ created' = IF cmpRoot[vm] THEN created ELSE New(vm, "root")
    /\ last' = DomCall("rootGet", vm, "root", "returned",
                       RootOf(created'[vm]["root"]), <<>>, FALSE, FALSE)
    /\ UNCHANGED <<host, lifecycle, cmpProps, cmpWired, cmpState, dom,
                   subs, reads>>

\* ---------------------------------------------------------- specifications
\* Construction and the public properties.
Next ==
    \/ \E vm \in VMs : BeginConstruction(vm)
    \/ ComponentElement
    \/ EndConstruction
    \/ \E vm \in VMs : StartRender(vm)
    \/ EndRender
    \/ \E vm \in VMs : \E p \in PublicPropsOf(vm) : PublicGet(vm, p)
    \/ \E vm \in VMs : \E p \in PublicPropsOf(vm) : \E v \in InputValues :
           PublicSet(vm, p, v)

Spec == Init /\ [][Next]_vars

\* The wired properties of constructed components.
NextWired ==
    \/ \E vm \in VMs : StartRender(vm)
    \/ EndRender
    \/ \E vm \in VMs : \E p \in WiredPropsOf(vm) : WiredGet(vm, p)
    \/ \E vm \in VMs : \E p \in WiredPropsOf(vm) : \E v \in InputValues :
           WiredSet(vm, p, v)

SpecWired == InitIdle /\ [][NextWired]_vars

\* The state property of constructed components.
NextState ==
    \/ \E vm \in VMs : StartRender(vm)
    \/ EndRender
    \/ \E vm \in VMs : StateGet(vm)
    \/ \E vm \in VMs : \E v \in InputValues : StateSet(vm, v)

SpecState == InitIdle /\ [][NextState]_vars

\* The reads of constructed components.
NextReads ==
    \/ \E vm \in VMs : StartRender(vm)
    \/ EndRender
    \/ \E vm \in VMs : \E p \in PublicPropsOf(vm) : PublicGet(vm, p)
    \/ \E vm \in VMs : \E p \in WiredPropsOf(vm) : WiredGet(vm, p)

SpecReads == InitIdle /\ [][NextReads]_vars

\* Construction and the operations on the host element.
NextDom ==
    \/ \E vm \in VMs : BeginConstruction(vm)
    \/ ComponentElement
    \/ EndConstruction
    \/ \E vm \in VMs : \E node \in Nodes : AppendChild(vm, node)
    \/ \E vm \in VMs : DispatchEvent(vm)
    \/ \E vm \in VMs : GetBoundingClientRect(vm)
    \/ \E vm \in VMs : \E sel \in Selectors : QuerySelector(vm, sel)
    \/ \E vm \in VMs : \E sel \in Selectors : QuerySelectorAll(vm, sel)

SpecDom == Init /\ [][NextDom]_vars

\* Construction, rendering and the attribute members of the component.
NextAttr ==
    \/ \E vm \in VMs : BeginConstruction(vm)
    \/ ComponentElement
    \/ EndConstruction
    \/ \E vm \in VMs : StartRender(vm)
    \/ EndRender
    \/ \E vm \in VMs : \E n \in DisabledProps : DisabledGet(vm, n)
    \/ \E vm \in VMs : \E argc \in {0, 1} : \E n \in AttrNames :
           GetAttribute(vm, argc, n)
    \/ \E vm \in VMs : TabIndexGet(vm)
    \/ \E vm \in VMs : \E v \in TabValues : TabIndexSet(vm, v)

SpecAttr == Init /\ [][NextAttr]_vars

\* The event listeners of constructed components.
NextEvents ==
    \/ \E vm \in VMs : \E argc \in {2, 3} : \E t \in EventTypes :
           \E h \in Handlers : AddEventListener(vm, argc, t, h)
    \/ \E vm \in VMs : \E argc \in {2, 3} : \E t \in EventTypes :
           \E h \in Handlers : RemoveEventListener(vm, argc, t, h)

SpecEvents == InitIdle /\ [][NextEvents]_vars

\* The writes of a constructor: the component under construction sets its
\* public and wired properties and its state, to values from outside or to
\* what its state holds.
NextConstructor ==
    \/ \E vm \in VMs : \E p \in PublicPropsOf(vm) : \E v \in InputValues :
           isBeingConstructed(vm) /\ PublicSet(vm, p, v)
    \/ \E vm \in VMs : \E p \in WiredPropsOf(vm) : \E v \in InputValues :
           isBeingConstructed(vm) /\ WiredSet(vm, p, v)
    \/ \E vm \in VMs : isBeingConstructed(vm) /\ StateGet(vm)
    \/ \E vm \in VMs : \E v \in InputValues \cup {cmpState[vm]} :
           isBeingConstructed(vm) /\ StateSet(vm, v)
    \/ EndConstruction

SpecConstructor == InitConstructor /\ [][NextConstructor]_vars

\* The lazily created objects of constructed components.
LazyValues == {Arr, Obj(1)}

NextLazy ==
    \/ \E vm \in VMs : ClassListGet(vm)
    \/ \E vm \in VMs : RootGet(vm)
    \/ \E vm \in VMs : \E p \in WiredPropsOf(vm) : WiredGet(vm, p)
    \/ \E vm \in VMs : \E p \in WiredPropsOf(vm) : \E v \in LazyValues :
           WiredSet(vm, p, v)
    \/ \E vm \in VMs : StateGet(vm)
    \/ \E vm \in VMs : \E v \in LazyValues : StateSet(vm, v)

SpecLazy == InitIdle /\ [][NextLazy]_vars

\* ------------------------------------------------------------------ claims
SameValue(w, v) == w.kind = v.kind /\ w.a = v.a
Eligible(v) == isObservable(v) /\ ~isArray(v)

\* C1, as stated: for every declared public property, a write through the
\* public setter during construction succeeds and later reads return it; a
\* write after construction is rejected and the public store is unchanged.
C1_AsStated ==
    [][/\ (last'.op = "publicSet" /\ last'.constructing)
            => /\ last'.outcome = "returned"
               /\ SameValue(cmpProps'[last'.vm][last'.key], last'.arg)
       /\ (last'.op = "publicSet" /\ ~last'.constructing)
            => (last'.outcome = "logError" /\ cmpProps' = cmpProps)
       /\ (last'.op = "publicGet" /\ ~last'.constructing)
            => last'.ret = cmpProps'[last'.vm][last'.key]]_vars

\* C1, amended: for every declared public property without author-defined
\* accessors, a write during construction is stored (wrapped when
\* observable) and reads made after construction return what the store
\* holds; for every declared public property a write after construction is
\* reported as an error and leaves the public store unchanged.
C1_ConstructionOnlyPublicWrites ==
    [][/\ (last'.op = "publicSet" /\ last'.constructing
              /\ ~origSetter(last'.key))
            => /\ last'.outcome = "returned"
               /\ SameValue(cmpProps'[last'.vm][last'.key], last'.arg)
               /\ cmpProps'[last'.vm][last'.key].proxy
                     = (last'.arg.proxy \/ isObservable(last'.arg))
       /\ (last'.op = "publicSet" /\ ~last'.constructing)
            => (last'.outcome = "logError" /\ cmpProps' = cmpProps)
       /\ (last'.op = "publicGet" /\ ~last'.constructing
              /\ ~origGetter(last'.key))
            => last'.ret = cmpProps'[last'.vm][last'.key]]_vars

\* A write of another value to "title" rejected after construction, the
\* store still holding what the constructor wrote.
C1_Witness ==
    /\ last.op = "publicSet"
    /\ ~last.constructing
    /\ last.outcome = "logError"
    /\ last.key = "title"
    /\ last.arg = Obj(2)
    /\ cmpProps[last.vm]["title"] = getReactiveProxy(Obj(1))

\* C2: a write to a public property, a wired property or `state` attempted
\* while the rendering flag is set is rejected and leaves every store as it
\* was; the same write of an eligible value to a wired property or to
\* `state` succeeds when the flag is clear.
C2_RenderPhasePurity ==
    [][/\ (last'.op \in {"publicSet", "wiredSet", "stateSet"}
              /\ last'.rendering)
            => /\ last'.outcome # "returned"
               /\ cmpProps' = cmpProps
               /\ cmpWired' = cmpWired
               /\ cmpState' = cmpState
       /\ (last'.op \in {"wiredSet", "stateSet"} /\ ~last'.rendering
              /\ Eligible(last'.arg))
            => last'.outcome = "returned"]_vars

\* C3, as stated: after a successful write of a wired property the store
\* holds a value with the written `a`, reads return what the store holds,
\* and every subscriber of the key got exactly one notification.
C3_AsStated ==
    /\ (last.op = "wiredSet" /\ last.outcome = "returned")
         => /\ cmpWired[last.vm].data[last.key].a = last.arg.a
            /\ \A c \in Listeners(Key(last.vm, "wired", last.key)) :
                   last.notes[c] = 1
    /\ last.op = "wiredGet" => last.ret = cmpWired[last.vm].data[last.key]

\* C3, amended: a successful write that changes the value of a wired
\* property (as the first write of {a: 1} to `data` does) stores the wrapper
\* of the value, whose `a` is the written one, and reads return what the
\* store holds; every subscriber of the key is notified twice for that one
\* write (by the on-write hook of the store's wrapper and by the setter's
\* explicit notifyListeners) and so scheduled once; no other context is
\* notified.
C3_WiredRoundTrip ==
    [][/\ (last'.op = "wiredSet" /\ last'.outcome = "returned"
              /\ cmpWired'[last'.vm].data[last'.key]
                    # cmpWired[last'.vm].data[last'.key])
            => /\ SameValue(cmpWired'[last'.vm].data[last'.key], last'.arg)
               /\ cmpWired'[last'.vm].data[last'.key].proxy
               /\ \A c \in VMs :
                      last'.notes[c] =
                          IF c \in Listeners(Key(last'.vm, "wired", last'.key))
                          THEN 2 ELSE 0
       /\ last'.op = "wiredGet"
            => last'.ret = cmpWired'[last'.vm].data[last'.key]]_vars

\* {a: 1} written to `data` outside a render, with a subscriber of `data`.
C3_Witness ==
    /\ last.op = "wiredSet"
    /\ last.outcome = "returned"
    /\ last.key = "data"
    /\ last.arg = Obj(1)
    /\ ~last.rendering
    /\ Listeners(Key(last.vm, "wired", "data")) # {}
    /\ cmpWired[last.vm].data["data"].a = 1

\* C4: a read of a public property by a VM under construction reports an
\* error and returns undefined: it returns no stored value, calls no
\* author-defined getter and registers no subscription.
C4_NoReadUnderConstruction ==
    [][(last'.op = "publicGet" /\ last'.constructing)
            => /\ last'.outcome = "logError"
               /\ last'.ret = Undefined
               /\ ~last'.orig
               /\ subs' = subs]_vars

\* "title" read under construction after the constructor wrote it.
C4_Witness ==
    /\ last.op = "publicGet"
    /\ last.constructing
    /\ last.key = "title"
    /\ cmpProps[last.vm]["title"] # Undefined

\* C5: the wired setter accepts a value only if it is observable and not an
\* array; for any other value the write fails, the wired store (created or
\* not) is what it was and nobody is notified.
C5_WiredSetterRejects ==
    [][last'.op = "wiredSet"
            => /\ last'.outcome = "returned" => Eligible(last'.arg)
               /\ ~Eligible(last'.arg)
                    => /\ last'.outcome = "fail"
                       /\ cmpWired' = cmpWired
                       /\ last'.notes = NoNotes]_vars

\* An array written to a wired property that has a subscriber.
C5_Witness ==
    /\ last.op = "wiredSet"
    /\ last.outcome = "fail"
    /\ last.arg = Arr
    /\ Listeners(Key(last.vm, "wired", last.key)) # {}

\* C6: an assignment to `state` succeeds exactly when the value is an
\* observable non-array object, and then the state store is the wrapper of
\* that value and reads of `state` return the store; any other assignment
\* fails and leaves the state store (created or not) what it was.
C6_StateAssignment ==
    [][/\ last'.op = "stateSet"
            => IF Eligible(last'.arg)
               THEN /\ last'.outcome = "returned"
                    /\ SameValue(cmpState'[last'.vm], last'.arg)
                    /\ cmpState'[last'.vm].proxy
               ELSE /\ last'.outcome = "fail"
                    /\ cmpState' = cmpState
       /\ last'.op = "stateGet"
            => /\ last'.ret = cmpState'[last'.vm]
               /\ ~isUndefined(cmpState[last'.vm])
                    => cmpState'[last'.vm] = cmpState[last'.vm]]_vars

\* An array assigned to a `state` that was never accessed.
C6_Witness ==
    /\ last.op = "stateSet"
    /\ last.outcome = "fail"
    /\ last.arg = Arr
    /\ isUndefined(cmpState[last.vm])

\* The registry entry a read makes.
Entry(l) ==
    [store |-> Key(l.vm, IF l.op = "publicGet" THEN "props" ELSE "wired",
                   l.key),
     ctx |-> l.ctx]

\* C7, as stated: every read of a public property (by a VM not under
\* construction) or of a wired property made during a render pass subscribes
\* the context being rendered to the key of the owning store; a read made
\* outside a render pass registers nothing.
C7_AsStated ==
    [][(last'.op \in {"publicGet", "wiredGet"} /\ ~last'.constructing)
            => IF last'.rendering
               THEN subs' = subs \cup {Entry(last')}
               ELSE subs' = subs]_vars

\* C7, amended: every read of a public property that has no author-defined
\* getter (by a VM not under construction) or of a wired property made
\* during a render pass subscribes the context being rendered, and nothing
\* else, to the key of the owning store; a read made outside a render pass
\* registers nothing.
C7_RenderTimeSubscription ==
    [][(/\ last'.op \in {"publicGet", "wiredGet"}
        /\ ~last'.constructing
        /\ last'.op = "publicGet" => ~origGetter(last'.key))
            => IF last'.rendering
               THEN subs' = subs \cup {Entry(last')}
               ELSE subs' = subs]_vars

\* A public property read during the render pass of another component.
C7_Witness ==
    /\ last.op = "publicGet"
    /\ last.rendering
    /\ last.ctx # last.vm
    /\ ~origGetter(last.key)
    /\ Entry(last) \in subs

\* C8: a successful write of a wired property outside any render schedules
\* exactly the contexts that read that property during their render pass: a
\* context that read only another property is not scheduled.
C8_DependencyRoundTrip ==
    (last.op = "wiredSet" /\ last.outcome = "returned" /\ ~last.rendering)
        => Scheduled(last.notes)
              = {c \in VMs : <<last.vm, last.key, c>> \in reads}

\* A write that schedules a reader of the key while a reader of the other
\* key only is left alone.
C8_Witness ==
    /\ last.op = "wiredSet"
    /\ last.outcome = "returned"
    /\ ~last.rendering
    /\ Scheduled(last.notes) # {}
    /\ \E c \in VMs :
           /\ c \notin Scheduled(last.notes)
           /\ \E k \in WiredProps : <<last.vm, k, c>> \in reads

\* The positions of the nodes of a subtree that match and were passed in.
PassedInMatches(vm, sel) ==
    {i \in 1..Len(dom[vm]) : Matches(dom[vm][i], sel) /\ dom[vm][i].passed}

Least(S) == CHOOSE i \in S : \A j \in S : i <= j

\* C9: querySelectorAll returns exactly the natively matched nodes that were
\* passed in, in document order, never a node of the component's own
\* template; querySelector returns the first of them, or null when there is
\* none.
C9_BoundaryFiltering ==
    [][(last' # last /\ last'.outcome = "returned")
            => /\ last'.op = "querySelectorAll"
                    => LET r == last'.nodes
                       IN  /\ {r[j] : j \in 1..Len(r)}
                                 = PassedInMatches(last'.vm, last'.key)
                           /\ \A j \in 1..Len(r) : \A k \in 1..Len(r) :
                                  j < k => r[j] < r[k]
                           /\ last'.ret.kind = "nodelist"
                           /\ last'.ret.a = Len(r)
               /\ last'.op = "querySelector"
                    => IF PassedInMatches(last'.vm, last'.key) = {}
                       THEN last'.ret = Null /\ last'.nodes = <<>>
                       ELSE /\ last'.nodes
                                 = <<Least(PassedInMatches(last'.vm,
                                                           last'.key))>>
                            /\ last'.ret.kind = "node"
                            /\ last'.ret.a = last'.nodes[1]]_vars

\* A query that returned a passed-in node and left out a matching node of
\* the template that precedes it.
C9_Witness ==
    /\ last.op = "querySelectorAll"
    /\ last.outcome = "returned"
    /\ Len(last.nodes) >= 1
    /\ \E i \in 1..Len(dom[last.vm]) :
           /\ i < last.nodes[1]
           /\ Matches(dom[last.vm][i], last.key)
           /\ ~dom[last.vm][i].passed

\* C10: while a VM is under construction, dispatchEvent,
\* getBoundingClientRect, querySelector and querySelectorAll are stopped
\* before they act on the host element: nothing is dispatched, read or
\* returned.
C10_NoElementOperationUnderConstruction ==
    (/\ last.op \in {"dispatchEvent", "getBoundingClientRect",
                     "querySelector", "querySelectorAll"}
     /\ last.constructing)
        => /\ ~last.performed
           /\ last.outcome = "assert"
           /\ last.ret = Undefined
           /\ last.nodes = <<>>

\* dispatchEvent called from a constructor.
C10_Witness ==
    /\ last.op = "dispatchEvent"
    /\ last.constructing
    /\ vmBeingConstructed = last.vm

\* What the stores of the VMs and the host elements hold.
vmState == <<cmpProps, cmpWired, cmpState, cmpRoot, dom, subs, tabIndex,
             cmpEvents, classListObj, created>>

\* C11: a read of a disabled global HTML property returns undefined, writes
\* exactly one entry to the log, raises nothing and changes no state of any
\* VM; the disabled names are global HTML properties that the prototype does
\* not define itself, so that a read of tabIndex still returns the tabIndex
\* of the host element.
C11_DisabledAccessor ==
    [][/\ last'.op = "disabledGet"
            => /\ last'.outcome = "returned"
               /\ last'.ret = Undefined
               /\ last'.console = <<"log">>
               /\ ~last'.warned
               /\ last'.key \in DOMAIN GlobalHTMLProperties
               /\ last'.key \notin Prototype
               /\ vmState' = vmState
               /\ last' # last => lifecycle' = lifecycle
       /\ last'.op = "tabIndexGet"
            => /\ last'.ret = Prim(tabIndex'[last'.vm])
               /\ last'.console = <<>>]_vars

\* The experimental `dropzone` read on a component whose tabIndex was set.
C11_Witness ==
    /\ last.op = "disabledGet"
    /\ last.key = "dropzone"
    /\ last.console = <<"log">>
    /\ tabIndex[last.vm] = 1

\* What getAttribute is to return for a name: the normalised value found
\* under it in the attrs of the vnode, null when it is absent.
AttrValue(vm, attrName) ==
    IF AttrsOf(vm).defined /\ attrName \in DOMAIN AttrsOf(vm).map
    THEN toAttributeValue(AttrsOf(vm).map[attrName])
    ELSE Null

\* C12: getAttribute called with the attribute name of a declared public
\* property of the component logs an advisory and proceeds: it returns the
\* value of the attribute from the attrs of the vnode (null when absent) and
\* raises nothing.
C12_ShadowingAttributeProceeds ==
    (/\ last.op = "getAttribute"
     /\ last.key # ""
     /\ getPropNameFromAttrName(last.key) \in PublicPropsOf(last.vm))
        => /\ last.outcome = "returned"
           /\ last.warned \/ last.console # <<>>
           /\ last.ret = AttrValue(last.vm, last.key)

\* C13: getAttribute called with no argument raises a hard failure; called
\* with one falsy argument it returns null and raises nothing; called with
\* a non-empty name it returns the normalised value found under the name in
\* the attrs of the vnode, null when the name is absent.
C13_GetAttributeArguments ==
    last.op = "getAttribute"
        => /\ last.argc = 0 => last.outcome = "TypeError"
           /\ (last.argc = 1 /\ last.key = "")
                => (last.outcome = "returned" /\ last.ret = Null)
           /\ last.key # ""
                => /\ last.outcome = "returned"
                   /\ last.ret = AttrValue(last.vm, last.key)

\* C18: a write of tabIndex changes the tabIndex of the host element only
\* when the VM is not under construction and no render pass is active; a
\* write attempted during a render pass or by a VM under construction is
\* reported as an error and leaves the tabIndex of every host element as it
\* was.
C18_TabIndexWrites ==
    [][/\ last'.op = "tabIndexSet"
            => IF last'.rendering \/ last'.constructing
               THEN /\ last'.outcome \in {"assert", "fail"}
                    /\ tabIndex' = tabIndex
               ELSE /\ last'.outcome = "returned"
                    /\ tabIndex'[last'.vm] = last'.arg.a
                    /\ \A vm \in VMs \ {last'.vm} :
                           tabIndex'[vm] = tabIndex[vm]
       /\ tabIndex' # tabIndex
            => /\ last'.op = "tabIndexSet"
               /\ ~last'.rendering
               /\ ~last'.constructing]_vars

\* tabIndex written during a render pass, after an earlier write set it.
C18_Witness ==
    /\ last.op = "tabIndexSet"
    /\ last.rendering
    /\ last.outcome = "assert"
    /\ last.arg = Prim(0)
    /\ tabIndex[last.vm] = 1

\* C14: addEventListener and removeEventListener called with more than two
\* arguments log a warning and still register (remove) the listener under
\* its type on the VM, the extra arguments being ignored; called with two
\* arguments they log no warning.
C14_ExtraListenerArguments ==
    last.op \in {"addEventListener", "removeEventListener"}
        => /\ last.outcome = "returned"
           /\ last.warned = (last.argc > 2)
           /\ (<<last.key, last.arg.a>> \in cmpEvents[last.vm])
                 = (last.op = "addEventListener")

\* C15: the constructor of a VM whose vnode has no DOM element is stopped by
\* the invariant and leaves the VM and the instance unlinked; the
\* constructor of a VM whose vnode has one links the instance and the VM to
\* each other; a VM is linked by its own constructor only.
C15_ConstructionInvariant ==
    [][/\ last'.op = "ComponentElement"
            => IF elm'[last'.vm]
               THEN last'.outcome = "returned" /\ linked'[last'.vm]
               ELSE last'.outcome = "invariant" /\ ~linked'[last'.vm]
       /\ \A vm \in VMs :
              (linked'[vm] /\ ~linked[vm])
                  => /\ vmBeingConstructed = vm
                     /\ elm[vm]
                     /\ last'.op = "ComponentElement"
                     /\ last'.vm = vm]_vars

\* A constructor stopped by the invariant after another VM was constructed.
C15_Witness ==
    /\ last.op = "ComponentElement"
    /\ last.outcome = "invariant"
    /\ ~elm[last.vm]
    /\ ~linked[last.vm]
    /\ \E vm \in VMs : linked[vm]

\* C17: for a public property with author-defined accessors the runtime
\* decides first whether the access is legal: a read calls the author's
\* getter exactly when the VM is not under construction, and what it returns
\* is the author's value, the public store being left alone; a write calls
\* the author's setter exactly when the VM is under construction, and the
\* runtime writes nothing to the public store; a write outside construction
\* is reported as an error.
C17_AuthorAccessors ==
    [][/\ (last'.op = "publicGet" /\ origGetter(last'.key))
            => /\ last'.orig = ~last'.constructing
               /\ last'.orig => (/\ last'.outcome = "returned"
                                 /\ last'.ret \in AuthorValues)
               /\ ~last'.orig => (/\ last'.outcome = "logError"
                                  /\ last'.ret = Undefined)
               /\ cmpProps' = cmpProps
       /\ (last'.op = "publicSet" /\ origSetter(last'.key))
            => /\ last'.orig = last'.constructing
               /\ ~last'.orig => last'.outcome = "logError"
               /\ cmpProps' = cmpProps]_vars

\* {a: 1} written to `label` by the constructor: the author's setter was
\* called and the public store holds nothing under `label`.
C17_Witness ==
    /\ last.op = "publicSet"
    /\ last.key = "label"
    /\ last.orig
    /\ last.constructing
    /\ last.arg = Obj(1)
    /\ cmpProps[last.vm]["label"] = Undefined

C19_LazyCreation ==
    [][/\ \A vm \in VMs :
          /\ \A slot \in Slots : created'[vm][slot] <= 1
          /\ created'[vm]["classList"] # created[vm]["classList"]
                => ~classListObj[vm]
          /\ created'[vm]["root"] # created[vm]["root"] => ~cmpRoot[vm]
          /\ created'[vm]["wired"] # created[vm]["wired"]
                => ~cmpWired[vm].created
          /\ created'[vm]["state"] # created[vm]["state"]
                => (isUndefined(cmpState[vm]) /\ last'.op = "stateGet")
          /\ classListObj[vm] => classListObj'[vm]
          /\ cmpRoot[vm] => cmpRoot'[vm]
          /\ cmpWired[vm].created => cmpWired'[vm].created
          /\ cmpState'[vm] # cmpState[vm]
                => \/ last'.op = "stateGet" /\ isUndefined(cmpState[vm])
                   \/ last'.op = "stateSet" /\ last'.outcome = "returned"
       /\ last'.op = "classListGet"
            => (last'.ret = ClassListOf(1) /\ classListObj'[last'.vm])
       /\ last'.op = "rootGet"
            => (last'.ret = RootOf(1) /\ cmpRoot'[last'.vm])
       /\ last'.op = "wiredGet"
            => /\ cmpWired'[last'.vm].created
               /\ cmpWired'[last'.vm].data = cmpWired[last'.vm].data
       /\ last'.op = "stateGet"
            => /\ last'.ret = cmpState'[last'.vm]
               /\ ~isUndefined(cmpState[last'.vm])
                    => cmpState'[last'.vm] = cmpState[last'.vm]
       /\ (last'.op = "stateSet" /\ last'.outcome # "returned")
            => cmpState' = cmpState]_vars

\* classList read after the four objects of the component were made, the
\* state store having been replaced by an assignment since.
C19_Witness ==
    /\ last.op = "classListGet"
    /\ \A slot \in Slots : created[last.vm][slot] = 1
    /\ cmpState[last.vm] = getReactiveProxy(Obj(1))

\* C20: in a successful write of a wired property the value is in the wired
\* store when the explicit notification of the key is issued: what the store
\* holds under the key at that moment is the wrapper of the written value,
\* and a read of the property that follows the write returns it.
C20_StoreBeforeNotify ==
    [][/\ (last'.op = "wiredSet" /\ last'.outcome = "returned")
            => /\ last'.atNotify = cmpWired'[last'.vm].data[last'.key]
               /\ SameValue(last'.atNotify, last'.arg)
       /\ (/\ last.op = "wiredSet"
           /\ last.outcome = "returned"
           /\ last'.op = "wiredGet"
           /\ last'.vm = last.vm
           /\ last'.key = last.key)
            => last'.ret = last.atNotify]_vars

\* {a: 2} written to `data` while a render context is subscribed to it.
C20_Witness ==
    /\ last.op = "wiredSet"
    /\ last.outcome = "returned"
    /\ last.key = "data"
    /\ last.arg = Obj(2)
    /\ last.atNotify = getReactiveProxy(Obj(2))
    /\ Scheduled(last.notes) # {}
====
